---- MODULE Spec2Model ----
(***************************************************************************)
(* Model of the guided-interview session controller of                     *)
(* frontend/app.js: the guidedState object, the DOM elements whose         *)
(* display/disabled attributes gate the click handlers, the MediaRecorder  *)
(* capture life cycle, the /api/analyze, /api/tts and question-loading     *)
(* requests in flight, and one action per click handler or callback.       *)
(*                                                                         *)
(* Strings are sequences of one-character strings, so that trim() and the  *)
(* truthiness tests of the code (!q, !text) are computed.                  *)
(***************************************************************************)
EXTENDS Integers, Sequences, FiniteSets, TLC

\* ------------------------------------------------------------------ bounds
MaxQuestions == 2      \* longest question list explored
MaxRequests == 2       \* captures (hence analyze requests) explored per run
MaxMicRequests == 2    \* getUserMedia promises pending at once
MaxOrphans == 1        \* recorders that lost their mediaRecorder reference
MaxChunks == 1         \* audioChunks entries counted (more are the same)
MaxSpeakCalls == 1     \* speakQuestion calls pending at once in a session run
MaxPlaybackCalls == 2  \* speakQuestion calls pending at once in a playback run
MaxLoadCalls == 1      \* loadQuestions calls pending at once
\* fields of a scored turn that the scoring collaborator filled in
MaxFields == 2
\* recordings stopped in a free-form run
MaxRecordings == 2

\* ------------------------------------------------------------ input values
QA == <<"a">>
QB == <<"b">>
\* question lists the questions endpoint may answer with
LoadableLists == {<<>>, <<QA>>, <<QA, QB>>}
\* job description field contents after trim()
JobDescriptions == {<<"j">>}
\* contents of the add-question input field
CustomInputs == {<<>>, <<" ">>, <<" ", "c">>, <<"c", " ">>, <<" ", "d", " ">>}

\* guidedState.questions[i] of an index outside the array
Undefined == <<"undefined">>
\* an array slot that was never assigned
Hole == [id |-> 0, hasTurns |-> FALSE]
\* the null uploadAndAnalyze passes to onSuccess when the request failed
Null == [id |-> -1, hasTurns |-> FALSE]

\* the rubric criteria renderTurnScore shows with a badge
MetCriteria == {"direct_answer_10s", "specific_example", "quantified_impact",
                "tradeoffs", "crisp_takeaway"}
Criteria == MetCriteria \cup {"trailing_sentences", "relevance_to_role"}
\* a JavaScript value of a turn's field: undefined (the field is omitted),
\* null, a boolean, a non-empty string, or an object with a met property and
\* possibly a non-empty note
Primitive(k) == [kind |-> k, met |-> "undefined", note |-> FALSE]
Omitted == Primitive("undefined")
FieldValues ==
  {Primitive(k) : k \in {"undefined", "null", "true", "false", "text"}}
    \cup [kind : {"object"}, met : {"undefined", "true", "false", "text"},
          note : BOOLEAN]
\* the turn object of an empty JSON object
EmptyTurn == [c \in Criteria |-> Omitted]
\* the turns with at most n fields filled in
RECURSIVE TurnsWith(_)
TurnsWith(n) ==
  IF n = 0 THEN {EmptyTurn}
  ELSE {[t EXCEPT ![c] = v] : t \in TurnsWith(n - 1), c \in Criteria,
                              v \in FieldValues}
Turns == TurnsWith(MaxFields)
\* no turn was rendered
NotRendered == [c \in Criteria |-> "none"]
\* resultsEl.innerHTML empty: nothing rendered, or cleared by startRecording
NoResults == [shown |-> "cleared", id |-> 0]

VARIABLES
  \* guidedState
  mode, questions, currentQuestionIndex, jobDescription, sessionResults,
  \* DOM: style.display of the panels, disabled/display of the buttons
  guidedSetupDisplay, guidedActiveDisplay, sessionSummaryDisplay,
  btnStartGuidedDisabled, btnStartAnswerDisabled, btnStopAnswerDisabled,
  btnTryAgainDisplay, btnNextQuestionDisplay,
  guidedFeedback, sessionSummary,
  \* capture
  mediaRecorder, audioChunks, micRequests, orphanRecorders, stopEvents,
  \* requests in flight
  analyzeCalls, speakCalls, loadCalls,
  \* browser capabilities
  speechSynthesisAvailable, getUserMediaAvailable,
  \* the speakQuestion calls a run lets be pending at once
  speakLimit,
  \* a scored turn and the badges renderTurnScore shows for it
  turn, rubric,
  \* free-form mode: the section's display, btnStart, btnStop, resultsEl,
  \* the getUserMedia promises of startRecording, the stop events and the
  \* analyze requests of its recordings
  freeformSectionDisplay, btnStartDisabled, btnStopDisabled, resultsEl,
  freeMicRequests, freeStopEvents, freeCalls,
  \* history: the recording stopped last, the number of the next one
  lastStopped, nextRecordingId,
  \* history
  nextRequestId, lastEvent, sessionClean

gsVars == <<mode, questions, currentQuestionIndex, jobDescription, sessionResults>>
panelVars == <<guidedSetupDisplay, guidedActiveDisplay, sessionSummaryDisplay>>
buttonVars == <<btnStartGuidedDisabled, btnStartAnswerDisabled, btnStopAnswerDisabled,
                btnTryAgainDisplay, btnNextQuestionDisplay>>
contentVars == <<guidedFeedback, sessionSummary>>
recVars == <<mediaRecorder, audioChunks, micRequests, orphanRecorders, stopEvents>>
callVars == <<analyzeCalls, speakCalls, loadCalls>>
envVars == <<speechSynthesisAvailable, getUserMediaAvailable, speakLimit>>
renderVars == <<turn, rubric>>
freeVars == <<freeformSectionDisplay, btnStartDisabled, btnStopDisabled, resultsEl,
              freeMicRequests, freeStopEvents, freeCalls, lastStopped,
              nextRecordingId>>
histVars == <<nextRequestId, sessionClean>>

vars == <<gsVars, panelVars, buttonVars, contentVars, recVars, callVars, envVars, renderVars, freeVars,
          histVars, lastEvent>>

\* ----------------------------------------------------------------- helpers
\* arr[i] of a JavaScript array, 0-based
At(arr, i) == IF i >= 0 /\ i < Len(arr) THEN arr[i + 1] ELSE Undefined

\* !s of a string or undefined
Falsy(s) == s = Undefined \/ s = <<>>

\* results[i] of the sparse results array, 0-based
ResultAt(results, i) == IF i >= 0 /\ i < Len(results) THEN results[i + 1] ELSE Hole

\* the truthiness of a result, a hole or null
Truthy(data) == data # Hole /\ data # Null

\* arr[i] = v of a JavaScript array: an index past the end leaves holes
SetAt(arr, i, v) ==
  IF i < Len(arr) THEN [arr EXCEPT ![i + 1] = v]
  ELSE arr \o [k \in 1..(i - Len(arr)) |-> Hole] \o <<v>>

RemoveAt(s, i) == SubSeq(s, 1, i - 1) \o SubSeq(s, i + 1, Len(s))

RECURSIVE TrimLeft(_)
TrimLeft(s) == IF s # <<>> /\ Head(s) = " " THEN TrimLeft(Tail(s)) ELSE s

RECURSIVE TrimRight(_)
TrimRight(s) ==
  IF s # <<>> /\ s[Len(s)] = " " THEN TrimRight(SubSeq(s, 1, Len(s) - 1)) ELSE s

\* String.prototype.trim
Trim(s) == TrimRight(TrimLeft(s))

\* the handler or callback that ran last: its kind, the analyze request it
\* concerns (0: none), whether it took its success path
Event(t, i, f) == [type |-> t, id |-> i, ok |-> f, stale |-> FALSE]

\* a callback or handler no property singles out
Other == Event("other", 0, TRUE)

\* what can be clicked: the button is shown, inside a shown panel, and enabled
CanClickSetup == guidedSetupDisplay
CanClickStartGuided == guidedSetupDisplay /\ ~btnStartGuidedDisabled
CanClickPlayQuestion == guidedActiveDisplay
CanClickStartAnswer == guidedActiveDisplay /\ ~btnStartAnswerDisabled
CanClickStopAnswer == guidedActiveDisplay /\ ~btnStopAnswerDisabled
CanClickTryAgain == guidedActiveDisplay /\ btnTryAgainDisplay
CanClickNextQuestion == guidedActiveDisplay /\ btnNextQuestionDisplay

\* -------------------------------------------------------------------- Init
Init ==
  /\ mode = "setup"
  /\ questions = <<>>
  /\ currentQuestionIndex = 0
  /\ jobDescription = <<>>
  /\ sessionResults = <<>>
  /\ guidedSetupDisplay = TRUE
  /\ guidedActiveDisplay = FALSE
  /\ sessionSummaryDisplay = FALSE
  /\ btnStartGuidedDisabled = TRUE
  /\ btnStartAnswerDisabled = TRUE
  /\ btnStopAnswerDisabled = TRUE
  /\ btnTryAgainDisplay = FALSE
  /\ btnNextQuestionDisplay = FALSE
  /\ guidedFeedback = [shown |-> "cleared", id |-> 0]
  /\ sessionSummary = <<>>
  /\ mediaRecorder = "null"
  /\ audioChunks = 0
  /\ micRequests = 0
  /\ orphanRecorders = 0
  /\ stopEvents = 0
  /\ analyzeCalls = <<>>
  /\ speakCalls = <<>>
  /\ loadCalls = <<>>
  /\ speechSynthesisAvailable \in BOOLEAN
  /\ getUserMediaAvailable \in BOOLEAN
  /\ speakLimit \in {MaxSpeakCalls, MaxPlaybackCalls}
  /\ turn \in Turns
  /\ rubric = NotRendered
  /\ freeformSectionDisplay = FALSE
  /\ btnStartDisabled = FALSE
  /\ btnStopDisabled = TRUE
  /\ resultsEl = NoResults
  /\ freeMicRequests = 0
  /\ freeStopEvents = <<>>
  /\ freeCalls = <<>>
  /\ lastStopped = 0
  /\ nextRecordingId = 1
  /\ nextRequestId = 1
  /\ lastEvent = Event("init", 0, TRUE)
  /\ sessionClean = TRUE


\* ------------------------------------------------------- playback (TTS)
\* speakQuestion, up to its first await: nothing is requested for an empty
\* text, otherwise the /api/tts fetch is pending
speakQuestion(calls, text, fromShow) ==
  IF Falsy(text) THEN calls
  ELSE Append(calls, [pc |-> "fetch", fromShow |-> fromShow, current |-> FALSE,
                      latest |-> fromShow, stopped |-> FALSE])

\* the calls in flight when a question is presented: none of them is the
\* playback of the presentation any more
Earlier(calls) == [k \in 1..Len(calls) |-> [calls[k] EXCEPT !.latest = FALSE]]

\* stopSpeaking: the audio element currentTtsAudio refers to is paused (its
\* promise never settles, the call is dropped); speechSynthesis.cancel()
\* ends every queued utterance with an error event; the calls that go on
\* are marked as having been in flight at a stopSpeaking
stopSpeaking(calls) ==
  LET kept == SelectSeq(calls, LAMBDA c : ~(c.pc = "playing" /\ c.current))
  IN [k \in 1..Len(kept) |->
        IF kept[k].pc = "synth"
        THEN [kept[k] EXCEPT !.pc = "cancelled", !.stopped = TRUE]
        ELSE [kept[k] EXCEPT !.stopped = TRUE]]

\* showCurrentQuestion's effect on the start-answer button and on playback,
\* for the mode m and index i the caller has just set
showCurrentQuestion(m, i) ==
  /\ speakCalls' = IF m = "active"
                   THEN speakQuestion(Earlier(speakCalls), At(questions, i), TRUE)
                   ELSE Earlier(speakCalls)
  /\ btnStartAnswerDisabled' = (m = "active" /\ ~Falsy(At(questions, i)))

\* the promise of call i resolves: the call ends; the .then of
\* showCurrentQuestion enables the start-answer button
SpeakResolved(i) ==
  /\ speakCalls' = RemoveAt(speakCalls, i)
  /\ btnStartAnswerDisabled' =
       IF speakCalls[i].fromShow THEN FALSE ELSE btnStartAnswerDisabled

\* the Web Speech fallback of call i
SpeakFallback(i, calls) ==
  IF speechSynthesisAvailable
  THEN /\ speakCalls' = [calls EXCEPT ![i].pc = "synth", ![i].current = FALSE]
       /\ UNCHANGED btnStartAnswerDisabled
  ELSE /\ speakCalls' = RemoveAt(calls, i)
       /\ btnStartAnswerDisabled' =
            IF speakCalls[i].fromShow THEN FALSE ELSE btnStartAnswerDisabled

ClearCurrent(calls) == [k \in 1..Len(calls) |-> [calls[k] EXCEPT !.current = FALSE]]

otherButtons == <<btnStartGuidedDisabled, btnStopAnswerDisabled,
                  btnTryAgainDisplay, btnNextQuestionDisplay>>

\* the /api/tts response of call i is ok: the audio element is created,
\* becomes currentTtsAudio and starts playing
TtsFetchOk(i) ==
  /\ i \in 1..Len(speakCalls) /\ speakCalls[i].pc = "fetch"
  /\ speakCalls' = [ClearCurrent(speakCalls) EXCEPT ![i].pc = "playing",
                                                     ![i].current = TRUE]
  /\ lastEvent' = Other
  /\ UNCHANGED <<gsVars, panelVars, buttonVars, contentVars, recVars,
                 analyzeCalls, loadCalls, envVars, renderVars, freeVars, histVars>>

\* the /api/tts fetch of call i rejects or answers with a non-ok status
TtsFetchFail(i) ==
  /\ i \in 1..Len(speakCalls) /\ speakCalls[i].pc = "fetch"
  /\ SpeakFallback(i, speakCalls)
  /\ lastEvent' = Other
  /\ UNCHANGED <<gsVars, panelVars, otherButtons, contentVars, recVars,
                 analyzeCalls, loadCalls, envVars, renderVars, freeVars, histVars>>

\* audio.onended of call i
AudioEnded(i) ==
  /\ i \in 1..Len(speakCalls) /\ speakCalls[i].pc = "playing"
  /\ speakCalls' = RemoveAt(ClearCurrent(speakCalls), i)
  /\ btnStartAnswerDisabled' =
       IF speakCalls[i].fromShow THEN FALSE ELSE btnStartAnswerDisabled
  /\ lastEvent' = Other
  /\ UNCHANGED <<gsVars, panelVars, otherButtons, contentVars, recVars,
                 analyzeCalls, loadCalls, envVars, renderVars, freeVars, histVars>>

\* audio.onerror of call i
AudioError(i) ==
  /\ i \in 1..Len(speakCalls) /\ speakCalls[i].pc = "playing"
  /\ SpeakFallback(i, ClearCurrent(speakCalls))
  /\ lastEvent' = Other
  /\ UNCHANGED <<gsVars, panelVars, otherButtons, contentVars, recVars,
                 analyzeCalls, loadCalls, envVars, renderVars, freeVars, histVars>>

\* audio.play() of call i is refused (autoplay policy) or the audio never
\* plays: neither onended nor onerror fires, the promise of the call never
\* settles; currentTtsAudio keeps referring to the silent element
AudioPlayRejected(i) ==
  /\ i \in 1..Len(speakCalls) /\ speakCalls[i].pc = "playing"
  /\ speakCalls' = RemoveAt(speakCalls, i)
  /\ lastEvent' = Other
  /\ UNCHANGED <<gsVars, panelVars, buttonVars, contentVars, recVars,
                 analyzeCalls, loadCalls, envVars, renderVars, freeVars, histVars>>

\* utterance.onend / utterance.onerror of call i
UtteranceEnd(i) ==
  /\ i \in 1..Len(speakCalls) /\ speakCalls[i].pc \in {"synth", "cancelled"}
  /\ SpeakResolved(i)
  /\ lastEvent' = Other
  /\ UNCHANGED <<gsVars, panelVars, otherButtons, contentVars, recVars,
                 analyzeCalls, loadCalls, envVars, renderVars, freeVars, histVars>>

\* btnPlayQuestion click
ClickPlayQuestion ==
  /\ CanClickPlayQuestion
  /\ Len(speakCalls) < speakLimit
  /\ speakCalls' = speakQuestion(speakCalls, At(questions, currentQuestionIndex), FALSE)
  /\ lastEvent' = Other
  /\ UNCHANGED <<gsVars, panelVars, buttonVars, contentVars, recVars,
                 analyzeCalls, loadCalls, envVars, renderVars, freeVars, histVars>>

\* ------------------------------------------------------------ turn rubric
\* a value that an if or a conditional takes as true
IsTruthy(k) == k \in {"true", "text", "object"}

\* met in renderTurnScore: o.met when o is an object with a boolean met
met(o) ==
  IF IsTruthy(o.kind) /\ o.met \in {"true", "false"} THEN o.met ELSE "null"

\* badge in renderTurnScore: the dash for null only, else Y or N by truth
badge(m) == IF m = "null" THEN "unknown" ELSE IF IsTruthy(m) THEN "yes" ELSE "no"

\* the badge renderTurnScore shows for each criterion of turn t; "none"
\* when the criterion's line is left out
RubricOf(t) ==
  [c \in Criteria |->
     IF c \in MetCriteria THEN badge(met(t[c]))
     ELSE IF c = "trailing_sentences" THEN badge(t[c].kind)
     ELSE IF IsTruthy(t[c].kind) /\ (t[c].met # "undefined" \/ t[c].note)
          THEN badge(t[c].met)
          ELSE "none"]

\* renderTurnScore
renderTurnScore ==
  /\ rubric = NotRendered
  /\ rubric' = RubricOf(turn)
  /\ lastEvent' = Other
  /\ UNCHANGED <<gsVars, panelVars, buttonVars, contentVars, recVars, callVars,
                 envVars, histVars, turn, freeVars>>

\* ------------------------------------------------------------ question set
\* setMode
setMode(m) ==
  /\ guidedSetupDisplay' = (m = "guided")
  /\ guidedActiveDisplay' = FALSE
  /\ sessionSummaryDisplay' = FALSE
  /\ freeformSectionDisplay' = (m # "guided")
  /\ lastEvent' = Other
  /\ UNCHANGED <<gsVars, buttonVars, contentVars, recVars, callVars, envVars,
                 renderVars, histVars, btnStartDisabled, btnStopDisabled,
                 resultsEl, freeMicRequests, freeStopEvents, freeCalls,
                 lastStopped, nextRecordingId>>

\* loadQuestions, up to the fetch
ClickLoadQuestions(jd) ==
  /\ CanClickSetup
  /\ Len(loadCalls) < MaxLoadCalls
  /\ loadCalls' = Append(loadCalls, jd)
  /\ lastEvent' = Other
  /\ UNCHANGED <<gsVars, panelVars, buttonVars, contentVars, recVars,
                 analyzeCalls, speakCalls, envVars, renderVars, freeVars, histVars>>

\* renderQuestionList's effect on the start button
renderQuestionList(qs, disabled) == IF Len(qs) = 0 THEN disabled ELSE FALSE

\* loadQuestions after the fetch: the body parsed, data.questions || []
LoadQuestionsDone(i, body) ==
  /\ i \in 1..Len(loadCalls)
  /\ questions' = body
  /\ jobDescription' = loadCalls[i]
  /\ btnStartGuidedDisabled' = renderQuestionList(body, btnStartGuidedDisabled)
  /\ loadCalls' = RemoveAt(loadCalls, i)
  /\ lastEvent' = Other
  /\ UNCHANGED <<mode, currentQuestionIndex, sessionResults, panelVars,
                 btnStartAnswerDisabled, btnStopAnswerDisabled,
                 btnTryAgainDisplay, btnNextQuestionDisplay, contentVars,
                 recVars, analyzeCalls, speakCalls, envVars, renderVars, freeVars, histVars>>

\* loadQuestions after the fetch, when the collaborator failed with a body
\* that parses but holds no question list (an error status with a JSON
\* body: fetch resolves and res.ok is not tested): data.questions || [] is
\* stored, the status is cleared
LoadQuestionsNoList(i) ==
  /\ i \in 1..Len(loadCalls)
  /\ questions' = <<>>
  /\ jobDescription' = loadCalls[i]
  /\ btnStartGuidedDisabled' = renderQuestionList(<<>>, btnStartGuidedDisabled)
  /\ loadCalls' = RemoveAt(loadCalls, i)
  /\ lastEvent' = Event("loadFailed", 0, TRUE)
  /\ UNCHANGED <<mode, currentQuestionIndex, sessionResults, panelVars,
                 btnStartAnswerDisabled, btnStopAnswerDisabled,
                 btnTryAgainDisplay, btnNextQuestionDisplay, contentVars,
                 recVars, analyzeCalls, speakCalls, envVars, renderVars, freeVars, histVars>>

\* loadQuestions when fetch or res.json() throws (network error, a body that
\* is not JSON): the catch sets the error status
LoadQuestionsThrows(i) ==
  /\ i \in 1..Len(loadCalls)
  /\ loadCalls' = RemoveAt(loadCalls, i)
  /\ lastEvent' = Event("loadFailed", 0, FALSE)
  /\ UNCHANGED <<gsVars, panelVars, buttonVars, contentVars, recVars,
                 analyzeCalls, speakCalls, envVars, renderVars, freeVars, histVars>>

\* mutation of addCustomQuestion: the input is stored as typed
addCustomQuestionUntrimmed(input) ==
  /\ CanClickSetup
  /\ Len(questions) < MaxQuestions
  /\ LET q == input IN
       IF Falsy(q)
       THEN UNCHANGED <<questions, btnStartGuidedDisabled>>
       ELSE /\ questions' = Append(questions, q)
            /\ btnStartGuidedDisabled' =
                 renderQuestionList(questions', btnStartGuidedDisabled)
  /\ lastEvent' = Event("add", 0, ~Falsy(input))
  /\ UNCHANGED <<mode, currentQuestionIndex, jobDescription, sessionResults,
                 panelVars, btnStartAnswerDisabled, btnStopAnswerDisabled,
                 btnTryAgainDisplay, btnNextQuestionDisplay, contentVars,
                 recVars, callVars, envVars, renderVars, freeVars, histVars>>

\* addCustomQuestion
addCustomQuestion(input) ==
  /\ CanClickSetup
  /\ Len(questions) < MaxQuestions
  /\ LET q == Trim(input) IN
       IF Falsy(q)
       THEN UNCHANGED <<questions, btnStartGuidedDisabled>>
       ELSE /\ questions' = Append(questions, q)
            /\ btnStartGuidedDisabled' =
                 renderQuestionList(questions', btnStartGuidedDisabled)
  /\ lastEvent' = Event("add", 0, ~Falsy(Trim(input)))
  /\ UNCHANGED <<mode, currentQuestionIndex, jobDescription, sessionResults,
                 panelVars, btnStartAnswerDisabled, btnStopAnswerDisabled,
                 btnTryAgainDisplay, btnNextQuestionDisplay, contentVars,
                 recVars, callVars, envVars, renderVars, freeVars, histVars>>

\* ---------------------------------------------------- session controller
\* every request in flight is superseded: a later request, a try-again, a
\* next or a start came after it
Superseded(calls) == [k \in 1..Len(calls) |-> [calls[k] EXCEPT !.stale = TRUE]]

\* a start came after every request in flight: they belong to an earlier session
Outlived(calls) ==
  [k \in 1..Len(calls) |-> [calls[k] EXCEPT !.stale = TRUE, !.inSession = FALSE]]

\* mutation of StartAccepted: the test is missing
StartAcceptedAlways(qs) == TRUE

\* startGuidedInterview: the test of its first line
StartAccepted(qs) == Len(qs) # 0

\* mutation of StartState: the results of the session before are kept
StartStateKeepsResults ==
  [mode |-> "active", currentQuestionIndex |-> 0, sessionResults |-> sessionResults]

\* startGuidedInterview: the session state it sets
StartState ==
  [mode |-> "active", currentQuestionIndex |-> 0, sessionResults |-> <<>>]

\* startGuidedInterview
startGuidedInterview ==
  /\ CanClickStartGuided
  /\ IF ~StartAccepted(questions)
     THEN /\ lastEvent' = Event("start", 0, FALSE)
          /\ UNCHANGED <<gsVars, panelVars, buttonVars, contentVars, speakCalls,
                         analyzeCalls, histVars>>
     ELSE /\ Len(speakCalls) < speakLimit
          /\ mode' = StartState.mode
          /\ currentQuestionIndex' = StartState.currentQuestionIndex
          /\ sessionResults' = StartState.sessionResults
          /\ guidedSetupDisplay' = FALSE
          /\ guidedActiveDisplay' = TRUE
          /\ guidedFeedback' = [shown |-> "cleared", id |-> 0]
          /\ UNCHANGED sessionSummary
          /\ btnTryAgainDisplay' = FALSE
          /\ btnNextQuestionDisplay' = FALSE
          /\ showCurrentQuestion(mode', currentQuestionIndex')
          /\ analyzeCalls' = Outlived(analyzeCalls)
          /\ sessionClean' = TRUE
          /\ lastEvent' = Event("start", 0, TRUE)
          /\ UNCHANGED <<questions, jobDescription, sessionSummaryDisplay,
                         btnStartGuidedDisabled, btnStopAnswerDisabled,
                         nextRequestId>>
  /\ UNCHANGED <<recVars, loadCalls, envVars, renderVars, freeVars>>

\* captures that can still issue an analyze request
PotentialRequests ==
  (nextRequestId - 1) + micRequests + stopEvents
    + (IF mediaRecorder = "recording" THEN 1 ELSE 0)

\* onGuidedStartRecording, up to the getUserMedia promise
onGuidedStartRecording ==
  /\ CanClickStartAnswer
  /\ IF ~getUserMediaAvailable
     THEN UNCHANGED <<speakCalls, micRequests>>
     ELSE /\ micRequests < MaxMicRequests
          /\ PotentialRequests < MaxRequests
          /\ speakCalls' = stopSpeaking(speakCalls)
          /\ micRequests' = micRequests + 1
  /\ lastEvent' = Event("startAnswer", 0, getUserMediaAvailable)
  /\ UNCHANGED <<gsVars, panelVars, buttonVars, contentVars, mediaRecorder,
                 audioChunks, orphanRecorders, stopEvents, analyzeCalls,
                 loadCalls, envVars, renderVars, freeVars, histVars>>

\* the .then of getUserMedia: a recorder is created and started; the one
\* mediaRecorder referred to, if still recording, keeps recording unreferenced
MicGranted ==
  /\ micRequests > 0
  /\ micRequests' = micRequests - 1
  /\ IF mediaRecorder = "recording"
     THEN /\ orphanRecorders < MaxOrphans
          /\ orphanRecorders' = orphanRecorders + 1
     ELSE UNCHANGED orphanRecorders
  /\ mediaRecorder' = "recording"
  /\ audioChunks' = 0
  /\ btnStartAnswerDisabled' = TRUE
  /\ btnStopAnswerDisabled' = FALSE
  /\ lastEvent' = Event("micGranted", 0, TRUE)
  /\ UNCHANGED <<gsVars, panelVars, btnStartGuidedDisabled, btnTryAgainDisplay,
                 btnNextQuestionDisplay, contentVars, stopEvents, callVars,
                 envVars, renderVars, freeVars, histVars>>

\* the .catch of getUserMedia
MicDenied ==
  /\ micRequests > 0
  /\ micRequests' = micRequests - 1
  /\ lastEvent' = Other
  /\ UNCHANGED <<gsVars, panelVars, buttonVars, contentVars, mediaRecorder,
                 audioChunks, orphanRecorders, stopEvents, callVars, envVars, renderVars, freeVars,
                 histVars>>

\* mediaRecorder.ondataavailable with e.data.size > 0, of any recorder that
\* is recording
DataAvailable ==
  /\ mediaRecorder = "recording" \/ orphanRecorders > 0
  /\ audioChunks < MaxChunks
  /\ audioChunks' = audioChunks + 1
  /\ lastEvent' = Other
  /\ UNCHANGED <<gsVars, panelVars, buttonVars, contentVars, mediaRecorder,
                 micRequests, orphanRecorders, stopEvents, callVars, envVars, renderVars, freeVars,
                 histVars>>

\* onGuidedStopRecording
onGuidedStopRecording ==
  /\ CanClickStopAnswer
  /\ IF mediaRecorder # "recording"
     THEN /\ lastEvent' = Event("stopAnswer", 0, FALSE)
          /\ UNCHANGED <<mode, mediaRecorder, stopEvents, btnStartAnswerDisabled,
                         btnStopAnswerDisabled>>
     ELSE /\ mediaRecorder' = "inactive"
          /\ stopEvents' = stopEvents + 1
          /\ btnStartAnswerDisabled' = TRUE
          /\ btnStopAnswerDisabled' = FALSE
          /\ mode' = "analyzing"
          /\ lastEvent' = Event("stopAnswer", 0, TRUE)
  /\ UNCHANGED <<questions, currentQuestionIndex, jobDescription, sessionResults,
                 panelVars, btnStartGuidedDisabled, btnTryAgainDisplay,
                 btnNextQuestionDisplay, contentVars, audioChunks, micRequests,
                 orphanRecorders, callVars, envVars, renderVars, freeVars, histVars>>

\* showGuidedFeedback: what guidedFeedbackEl shows for the results and index
FeedbackFor(results, i) ==
  LET data == ResultAt(results, i) IN
    IF Truthy(data) /\ data.hasTurns
    THEN [shown |-> "result", id |-> data.id]
    ELSE [shown |-> "none", id |-> 0]

\* mutation of showGuidedFeedback: the try-again and next buttons are shown
\* only with a rendered result
showGuidedFeedbackOnlyWithResult(results) ==
  /\ guidedFeedback' = FeedbackFor(results, currentQuestionIndex)
  /\ UNCHANGED sessionSummary
  /\ btnTryAgainDisplay' =
       (btnTryAgainDisplay \/ guidedFeedback'.shown = "result")
  /\ btnNextQuestionDisplay' =
       (btnNextQuestionDisplay \/ guidedFeedback'.shown = "result")
  /\ btnStartAnswerDisabled' = TRUE

\* showGuidedFeedback
showGuidedFeedback(results) ==
  /\ guidedFeedback' = FeedbackFor(results, currentQuestionIndex)
  /\ UNCHANGED sessionSummary
  /\ btnTryAgainDisplay' = TRUE
  /\ btnNextQuestionDisplay' = TRUE
  /\ btnStartAnswerDisabled' = TRUE


\* the options of the uploadAndAnalyze call of mediaRecorder.onstop
AnalyzeRequest(id) ==
  [id |-> id,
   q |-> At(questions, currentQuestionIndex),
   idx |-> currentQuestionIndex,
   includeRewrites |-> TRUE,
   stale |-> FALSE,
   inSession |-> TRUE]

\* mediaRecorder.onstop of a stopped recorder, after its last dataavailable
\* event (finalData: that event carried bytes)
RecorderStopped(finalData) ==
  /\ stopEvents > 0
  /\ stopEvents' = stopEvents - 1
  /\ audioChunks' = IF finalData /\ audioChunks < MaxChunks
                    THEN audioChunks + 1 ELSE audioChunks
  /\ IF audioChunks' > 0
     THEN /\ analyzeCalls' = Append(Superseded(analyzeCalls),
                                    AnalyzeRequest(nextRequestId))
          /\ nextRequestId' = nextRequestId + 1
          /\ lastEvent' = Event("recorderStopped", nextRequestId, TRUE)
          /\ UNCHANGED <<mode, contentVars, btnTryAgainDisplay,
                         btnNextQuestionDisplay, btnStartAnswerDisabled,
                         sessionClean>>
     ELSE /\ mode' = "feedback"
          /\ showGuidedFeedback(sessionResults)
          /\ sessionClean' = FALSE
          /\ lastEvent' = Event("recorderStopped", 0, FALSE)
          /\ UNCHANGED <<analyzeCalls, nextRequestId>>
  /\ UNCHANGED <<questions, currentQuestionIndex, jobDescription, sessionResults,
                 panelVars, btnStartGuidedDisabled, btnStopAnswerDisabled,
                 mediaRecorder, micRequests, orphanRecorders,
                 speakCalls, loadCalls, envVars, renderVars, freeVars>>

\* the data of a successful /api/analyze response to request r
AnalyzeData(r, hasTurns) == [id |-> r.id, hasTurns |-> hasTurns]

\* onGuidedAnalyzeResult: the results array after the call
onGuidedAnalyzeResult(results, i, data) ==
  IF Truthy(data) THEN SetAt(results, i, data) ELSE results

\* uploadAndAnalyze after the fetch of request k settled: onSuccess(data) or,
\* from the catch, onSuccess(null); then onGuidedAnalyzeResult
AnalyzeSettled(k, ok, hasTurns) ==
  /\ k \in 1..Len(analyzeCalls)
  /\ LET r == analyzeCalls[k]
         data == IF ok THEN AnalyzeData(r, hasTurns) ELSE Null
     IN /\ mode' = "feedback"
        /\ sessionResults' = onGuidedAnalyzeResult(sessionResults,
                                                   currentQuestionIndex, data)
        /\ showGuidedFeedback(sessionResults')
        /\ lastEvent' = [Event("analyzeSettled", r.id, ok) EXCEPT !.stale = r.stale]
        /\ sessionClean' = (sessionClean /\ ok)
  /\ analyzeCalls' = RemoveAt(analyzeCalls, k)
  /\ UNCHANGED <<questions, currentQuestionIndex, jobDescription, panelVars,
                 btnStartGuidedDisabled, btnStopAnswerDisabled,
                 recVars, speakCalls, loadCalls, envVars, renderVars, freeVars, nextRequestId>>

\* mutation of onTryAgain: the stored result of the question is discarded
onTryAgainDropsResult ==
  /\ CanClickTryAgain
  /\ Len(speakCalls) < speakLimit
  /\ mode' = "active"
  /\ guidedFeedback' = [shown |-> "cleared", id |-> 0]
  /\ UNCHANGED sessionSummary
  /\ btnTryAgainDisplay' = FALSE
  /\ btnNextQuestionDisplay' = FALSE
  /\ showCurrentQuestion(mode', currentQuestionIndex)
  /\ analyzeCalls' = Superseded(analyzeCalls)
  /\ lastEvent' = Event("tryAgain", 0, TRUE)
  /\ sessionResults' = SetAt(sessionResults, currentQuestionIndex, Hole)
  /\ UNCHANGED <<questions, currentQuestionIndex, jobDescription,
                 panelVars, btnStartGuidedDisabled, btnStopAnswerDisabled,
                 recVars, loadCalls, envVars, renderVars, freeVars, histVars>>

\* mutation of onTryAgain: the retry goes back to the question before
onTryAgainStepsBack ==
  /\ CanClickTryAgain
  /\ Len(speakCalls) < speakLimit
  /\ mode' = "active"
  /\ guidedFeedback' = [shown |-> "cleared", id |-> 0]
  /\ UNCHANGED sessionSummary
  /\ btnTryAgainDisplay' = FALSE
  /\ btnNextQuestionDisplay' = FALSE
  /\ currentQuestionIndex' =
       IF currentQuestionIndex > 0 THEN currentQuestionIndex - 1 ELSE 0
  /\ showCurrentQuestion(mode', currentQuestionIndex')
  /\ analyzeCalls' = Superseded(analyzeCalls)
  /\ lastEvent' = Event("tryAgain", 0, TRUE)
  /\ UNCHANGED <<questions, jobDescription, sessionResults,
                 panelVars, btnStartGuidedDisabled, btnStopAnswerDisabled,
                 recVars, loadCalls, envVars, renderVars, freeVars, histVars>>

\* onTryAgain
onTryAgain ==
  /\ CanClickTryAgain
  /\ Len(speakCalls) < speakLimit
  /\ mode' = "active"
  /\ guidedFeedback' = [shown |-> "cleared", id |-> 0]
  /\ UNCHANGED sessionSummary
  /\ btnTryAgainDisplay' = FALSE
  /\ btnNextQuestionDisplay' = FALSE
  /\ showCurrentQuestion(mode', currentQuestionIndex)
  /\ analyzeCalls' = Superseded(analyzeCalls)
  /\ lastEvent' = Event("tryAgain", 0, TRUE)
  /\ UNCHANGED <<questions, currentQuestionIndex, jobDescription, sessionResults,
                 panelVars, btnStartGuidedDisabled, btnStopAnswerDisabled,
                 recVars, loadCalls, envVars, renderVars, freeVars, histVars>>

\* mutation of PastLast: the session ends one question late
PastLastOffByOne(i, qs) == i > Len(qs)

\* onNextQuestion: the test that ends the session
PastLast(i, qs) == i >= Len(qs)

\* the label of summary entry i: guidedState.questions[i] || 'Question ' + (i + 1)
SummaryLabel(qs, i) ==
  IF Falsy(At(qs, i)) THEN <<"Question " \o ToString(i + 1)>> ELSE At(qs, i)

\* showSessionSummary: one entry per element of sessionResults.filter(Boolean),
\* labelled with the question at the element's position in the filtered array
SummaryOf(results, qs) ==
  LET filtered == SelectSeq(results, Truthy)
  IN [i \in 1..Len(filtered) |-> [q |-> SummaryLabel(qs, i - 1), data |-> filtered[i]]]

\* onNextQuestion
onNextQuestion ==
  /\ CanClickNextQuestion
  /\ currentQuestionIndex' = currentQuestionIndex + 1
  /\ IF PastLast(currentQuestionIndex', questions)
     THEN /\ mode' = "complete"
          /\ guidedActiveDisplay' = FALSE
          /\ sessionSummaryDisplay' = TRUE
          /\ sessionSummary' = SummaryOf(sessionResults, questions)
          /\ lastEvent' = Event("next", 0, FALSE)
          /\ UNCHANGED <<guidedFeedback, btnTryAgainDisplay, btnNextQuestionDisplay,
                         btnStartAnswerDisabled, speakCalls>>
     ELSE /\ Len(speakCalls) < speakLimit
          /\ mode' = "active"
          /\ guidedFeedback' = [shown |-> "cleared", id |-> 0]
          /\ btnTryAgainDisplay' = FALSE
          /\ btnNextQuestionDisplay' = FALSE
          /\ showCurrentQuestion(mode', currentQuestionIndex')
          /\ lastEvent' = Event("next", 0, TRUE)
          /\ UNCHANGED <<guidedActiveDisplay, sessionSummaryDisplay, sessionSummary>>
  /\ analyzeCalls' = Superseded(analyzeCalls)
  /\ UNCHANGED <<questions, jobDescription, sessionResults, guidedSetupDisplay,
                 btnStartGuidedDisabled, btnStopAnswerDisabled, recVars,
                 loadCalls, envVars, renderVars, freeVars, histVars>>

\* ---------------------------------------------------------- free-form mode
\* startRecording, up to the await of getUserMedia
startRecording ==
  /\ freeformSectionDisplay /\ ~btnStartDisabled
  /\ IF ~getUserMediaAvailable
     THEN UNCHANGED freeMicRequests
     ELSE /\ freeMicRequests < MaxMicRequests
          /\ freeMicRequests' = freeMicRequests + 1
  /\ lastEvent' = Event("freeStart", 0, getUserMediaAvailable)
  /\ UNCHANGED <<gsVars, panelVars, buttonVars, contentVars, recVars, callVars,
                 envVars, renderVars, histVars, freeformSectionDisplay,
                 btnStartDisabled, btnStopDisabled, resultsEl, freeStopEvents,
                 freeCalls, lastStopped, nextRecordingId>>

\* the requests and stop events of the recordings made so far: a later
\* recording has been started since
FreeSuperseded(calls) == [k \in 1..Len(calls) |-> [calls[k] EXCEPT !.stale = TRUE]]

\* startRecording after getUserMedia resolved: a recorder is created and
\* started (the one mediaRecorder referred to, if still recording, keeps
\* recording unreferenced), the results area is cleared
FreeMicGranted ==
  /\ freeMicRequests > 0
  /\ freeMicRequests' = freeMicRequests - 1
  /\ IF mediaRecorder = "recording"
     THEN /\ orphanRecorders < MaxOrphans
          /\ orphanRecorders' = orphanRecorders + 1
     ELSE UNCHANGED orphanRecorders
  /\ mediaRecorder' = "recording"
  /\ audioChunks' = 0
  /\ btnStartDisabled' = TRUE
  /\ btnStopDisabled' = FALSE
  /\ resultsEl' = NoResults
  /\ freeStopEvents' = FreeSuperseded(freeStopEvents)
  /\ freeCalls' = FreeSuperseded(freeCalls)
  /\ lastEvent' = Event("freeMicGranted", 0, TRUE)
  /\ UNCHANGED <<gsVars, panelVars, buttonVars, contentVars, micRequests,
                 stopEvents, callVars, envVars, renderVars, histVars,
                 freeformSectionDisplay, lastStopped, nextRecordingId>>

\* the catch of startRecording: getUserMedia rejected
FreeMicDenied ==
  /\ freeMicRequests > 0
  /\ freeMicRequests' = freeMicRequests - 1
  /\ lastEvent' = Other
  /\ UNCHANGED <<gsVars, panelVars, buttonVars, contentVars, recVars, callVars,
                 envVars, renderVars, histVars, freeformSectionDisplay,
                 btnStartDisabled, btnStopDisabled, resultsEl, freeStopEvents,
                 freeCalls, lastStopped, nextRecordingId>>

\* stopRecording
stopRecording ==
  /\ freeformSectionDisplay /\ ~btnStopDisabled
  /\ IF mediaRecorder # "recording"
     THEN /\ lastEvent' = Event("freeStop", 0, FALSE)
          /\ UNCHANGED <<mediaRecorder, btnStartDisabled, btnStopDisabled,
                         freeStopEvents, lastStopped, nextRecordingId>>
     ELSE /\ nextRecordingId <= MaxRecordings
          /\ mediaRecorder' = "inactive"
          /\ freeStopEvents' =
               Append(freeStopEvents, [id |-> nextRecordingId, stale |-> FALSE])
          /\ lastStopped' = nextRecordingId
          /\ nextRecordingId' = nextRecordingId + 1
          /\ btnStartDisabled' = FALSE
          /\ btnStopDisabled' = TRUE
          /\ lastEvent' = Event("freeStop", nextRecordingId, TRUE)
  /\ UNCHANGED <<gsVars, panelVars, buttonVars, contentVars, audioChunks,
                 micRequests, orphanRecorders, stopEvents, callVars, envVars,
                 renderVars, histVars, freeformSectionDisplay, resultsEl,
                 freeMicRequests, freeCalls>>

\* mediaRecorder.onstop of the recording stopped first, after its last
\* dataavailable event (finalData: that event carried bytes): the blob of
\* audioChunks is uploaded when it is not empty
FreeRecorderStopped(finalData) ==
  /\ Len(freeStopEvents) > 0
  /\ freeStopEvents' = Tail(freeStopEvents)
  /\ audioChunks' = IF finalData /\ audioChunks < MaxChunks
                    THEN audioChunks + 1 ELSE audioChunks
  /\ IF audioChunks' > 0
     THEN freeCalls' = Append(freeCalls, Head(freeStopEvents))
     ELSE UNCHANGED freeCalls
  /\ lastEvent' = Event("freeRecorderStopped", Head(freeStopEvents).id,
                        audioChunks' > 0)
  /\ UNCHANGED <<gsVars, panelVars, buttonVars, contentVars, mediaRecorder,
                 micRequests, orphanRecorders, stopEvents, callVars, envVars,
                 renderVars, histVars, freeformSectionDisplay, btnStartDisabled,
                 btnStopDisabled, resultsEl, freeMicRequests, lastStopped,
                 nextRecordingId>>

\* renderResults: resultsEl shows the data of the recording
renderResults(id) == [shown |-> "results", id |-> id]

\* uploadAndAnalyze without onSuccess, after the fetch of request k settled:
\* renderResults(data), or the error status from the catch
FreeAnalyzeSettled(k, ok) ==
  /\ k \in 1..Len(freeCalls)
  /\ resultsEl' = IF ok THEN renderResults(freeCalls[k].id) ELSE resultsEl
  /\ freeCalls' = RemoveAt(freeCalls, k)
  /\ lastEvent' = [Event("freeSettled", freeCalls[k].id, ok)
                     EXCEPT !.stale = freeCalls[k].stale]
  /\ UNCHANGED <<gsVars, panelVars, buttonVars, contentVars, recVars, callVars,
                 envVars, renderVars, histVars, freeformSectionDisplay,
                 btnStartDisabled, btnStopDisabled, freeMicRequests,
                 freeStopEvents, lastStopped, nextRecordingId>>

\* ------------------------------------------------------------ specification
\* the callbacks of the collaborators: playback, capture, analysis, loading
Completions ==
  \/ \E i \in 1..MaxLoadCalls, body \in LoadableLists : LoadQuestionsDone(i, body)
  \/ \E i \in 1..MaxLoadCalls : LoadQuestionsNoList(i)
  \/ \E i \in 1..MaxLoadCalls : LoadQuestionsThrows(i)
  \/ \E i \in 1..MaxSpeakCalls : TtsFetchOk(i)
  \/ \E i \in 1..MaxSpeakCalls : TtsFetchFail(i)
  \/ \E i \in 1..MaxSpeakCalls : AudioEnded(i)
  \/ \E i \in 1..MaxSpeakCalls : AudioError(i)
  \/ \E i \in 1..MaxSpeakCalls : AudioPlayRejected(i)
  \/ \E i \in 1..MaxSpeakCalls : UtteranceEnd(i)
  \/ MicGranted
  \/ MicDenied
  \/ DataAvailable
  \/ \E finalData \in BOOLEAN : RecorderStopped(finalData)
  \/ \E k \in 1..MaxRequests, ok \in BOOLEAN, hasTurns \in BOOLEAN :
       AnalyzeSettled(k, ok, hasTurns)

\* the clicks of a guided session: load, start, answer, stop, try again,
\* next, and the return to the setup view
SessionClicks ==
  \/ setMode("guided")
  \/ \E jd \in JobDescriptions : ClickLoadQuestions(jd)
  \/ startGuidedInterview
  \/ onGuidedStartRecording
  \/ onGuidedStopRecording
  \/ onTryAgain
  \/ onNextQuestion

\* the remaining clicks: free-form mode, custom questions, replay
OtherClicks ==
  \/ setMode("freeform")
  \/ \E input \in CustomInputs : addCustomQuestion(input)
  \/ ClickPlayQuestion

\* a browser with microphone access and speech synthesis
SessionInit ==
  Init /\ speechSynthesisAvailable /\ getUserMediaAvailable
       /\ speakLimit = MaxSpeakCalls /\ turn = EmptyTurn

Next == SessionClicks \/ Completions

\* the guided session: every interleaving of the session's clicks with the
\* collaborators' completions
Spec == SessionInit /\ [][Next]_vars

\* no capture, analysis or loading is pending
Quiet ==
  micRequests = 0 /\ stopEvents = 0 /\ Len(analyzeCalls) = 0 /\ Len(loadCalls) = 0

\* the guided session of a user who waits for the pending capture, analysis
\* or loading before the next click
SequentialNext ==
  \/ Quiet /\ setMode("guided")
  \/ Quiet /\ \E jd \in JobDescriptions : ClickLoadQuestions(jd)
  \/ Quiet /\ startGuidedInterview
  \/ Quiet /\ onGuidedStartRecording
  \/ Quiet /\ onGuidedStopRecording
  \/ Quiet /\ onTryAgain
  \/ Quiet /\ onNextQuestion
  \/ Completions

SpecSequential == SessionInit /\ [][SequentialNext]_vars

\* the setup view: loading questions, adding custom questions, switching
\* between the guided and the free-form page
SetupNext ==
  \/ \E m \in {"guided", "freeform"} : setMode(m)
  \/ \E jd \in JobDescriptions : ClickLoadQuestions(jd)
  \/ \E i \in 1..MaxLoadCalls, body \in LoadableLists : LoadQuestionsDone(i, body)
  \/ \E i \in 1..MaxLoadCalls : LoadQuestionsNoList(i)
  \/ \E i \in 1..MaxLoadCalls : LoadQuestionsThrows(i)
  \/ \E input \in CustomInputs : addCustomQuestion(input)

SpecSetup == SessionInit /\ [][SetupNext]_vars

\* every step of a playback settles: the /api/tts fetch, the audio element
\* (it ends, errors, or is never played), the utterance
PlaybackSettles ==
  /\ WF_vars(\E i \in 1..MaxSpeakCalls : TtsFetchOk(i) \/ TtsFetchFail(i))
  /\ WF_vars(\E i \in 1..MaxSpeakCalls :
               AudioEnded(i) \/ AudioError(i) \/ AudioPlayRejected(i))
  /\ WF_vars(\E i \in 1..MaxSpeakCalls : UtteranceEnd(i))

\* the guided session in which every playback settles
SpecPlaying == Spec /\ PlaybackSettles

\* a browser with microphone access, with or without speech synthesis, in a
\* run that lets a second speakQuestion call be pending
PlaybackInit ==
  Init /\ getUserMediaAvailable /\ speakLimit = MaxPlaybackCalls
       /\ turn = EmptyTurn

\* presenting and replaying questions: the session's clicks, the callbacks
\* of playback, and captures that record no bytes (they reach feedback
\* without an analyze request)
PlaybackNext ==
  \/ setMode("guided")
  \/ \E jd \in JobDescriptions : ClickLoadQuestions(jd)
  \/ \E i \in 1..MaxLoadCalls, body \in LoadableLists : LoadQuestionsDone(i, body)
  \/ startGuidedInterview
  \/ ClickPlayQuestion
  \/ \E i \in 1..MaxPlaybackCalls : TtsFetchOk(i)
  \/ \E i \in 1..MaxPlaybackCalls : TtsFetchFail(i)
  \/ \E i \in 1..MaxPlaybackCalls : AudioEnded(i)
  \/ \E i \in 1..MaxPlaybackCalls : AudioError(i)
  \/ \E i \in 1..MaxPlaybackCalls : AudioPlayRejected(i)
  \/ \E i \in 1..MaxPlaybackCalls : UtteranceEnd(i)
  \/ onGuidedStartRecording
  \/ MicGranted
  \/ onGuidedStopRecording
  \/ RecorderStopped(FALSE)
  \/ onTryAgain
  \/ onNextQuestion

SpecPlayback == PlaybackInit /\ [][PlaybackNext]_vars

\* the browser delivers the stop event of a stopped recorder, and every
\* /api/analyze request settles (uploadAndAnalyze awaits the fetch inside a
\* try/catch, so a rejection settles it too)
CaptureAndAnalyzeSettle ==
  /\ WF_vars(\E finalData \in BOOLEAN : RecorderStopped(finalData))
  /\ WF_vars(\E k \in 1..MaxRequests, ok \in BOOLEAN, hasTurns \in BOOLEAN :
               AnalyzeSettled(k, ok, hasTurns))

\* the guided session in which captures and analyze requests settle
SpecSettling == Spec /\ CaptureAndAnalyzeSettle

\* rendering the rubric of a scored turn
RenderInit ==
  Init /\ speechSynthesisAvailable /\ getUserMediaAvailable
       /\ speakLimit = MaxSpeakCalls

RenderNext == renderTurnScore

SpecRender == RenderInit /\ [][RenderNext]_vars

\* free-form mode: recordings, their stop events and analyze requests
FreeInit ==
  Init /\ speechSynthesisAvailable /\ getUserMediaAvailable
       /\ speakLimit = MaxSpeakCalls /\ turn = EmptyTurn

FreeNext ==
  \/ \E m \in {"guided", "freeform"} : setMode(m)
  \/ startRecording
  \/ FreeMicGranted
  \/ FreeMicDenied
  \/ DataAvailable
  \/ stopRecording
  \/ \E finalData \in BOOLEAN : FreeRecorderStopped(finalData)
  \/ \E k \in 1..MaxRecordings, ok \in BOOLEAN : FreeAnalyzeSettled(k, ok)

SpecFreeform == FreeInit /\ [][FreeNext]_vars

NextAll == SessionClicks \/ OtherClicks \/ Completions \/ FreeNext

\* the whole page
SpecAll == Init /\ [][NextAll]_vars

TypeOK ==
  /\ mode \in {"setup", "active", "analyzing", "feedback", "complete"}
  /\ currentQuestionIndex \in 0..MaxQuestions
  /\ Len(questions) <= MaxQuestions
  /\ Len(sessionResults) <= currentQuestionIndex + 1
  /\ mediaRecorder \in {"null", "recording", "inactive"}
  /\ Len(analyzeCalls) <= MaxRequests
  /\ Len(speakCalls) <= speakLimit


\* ------------------------------------------------------------------ claims
\* the analyze requests in flight that the current session issued
SessionCalls == SelectSeq(analyzeCalls, LAMBDA r : r.inSession)

StoredIndices ==
  {i \in 0..(Len(sessionResults) - 1) : Truthy(ResultAt(sessionResults, i))}

\* C1: in a guided session at most one analyze request is outstanding, and
\* no answer capture starts (the start-answer click is accepted, or its
\* getUserMedia promise creates the recorder) while an analyze request of the
\* session is outstanding.
C1_OneAnalyzeInFlight ==
  /\ Len(SessionCalls) <= 1
  /\ (lastEvent.type \in {"startAnswer", "micGranted"} /\ lastEvent.ok)
       => Len(SessionCalls) = 0

\* C2: the completion of an analyze call of an older attempt (one that a
\* later request, try-again, next or start superseded) is discarded: it
\* changes neither sessionResults nor the mode.
C2_StaleCompletionDiscarded ==
  [][(lastEvent'.type = "analyzeSettled" /\ lastEvent'.stale)
       => (sessionResults' = sessionResults /\ mode' = mode)]_vars

\* C3: startGuidedInterview with an empty question list is rejected: mode,
\* currentQuestionIndex and sessionResults are unchanged, and a start that is
\* accepted had a non-empty question list.
C3_EmptyStartRejected ==
  [][lastEvent'.type = "start"
       => /\ Len(questions) = 0 =>
               /\ ~lastEvent'.ok
               /\ mode' = mode
               /\ currentQuestionIndex' = currentQuestionIndex
               /\ sessionResults' = sessionResults
          /\ lastEvent'.ok => Len(questions') > 0]_vars

\* C3 witness: a start was rejected for an empty list while results of an
\* earlier session were stored
C3_Witness ==
  /\ lastEvent.type = "start" /\ ~lastEvent.ok
  /\ Len(questions) = 0
  /\ sessionResults # <<>>

\* C4: every accepted start yields mode active, index 0 and empty
\* sessionResults, whatever they were before, and leaves the questions as
\* they were.
C4_StartResets ==
  [][(lastEvent'.type = "start" /\ Len(questions) > 0)
       => /\ lastEvent'.ok
          /\ mode' = "active"
          /\ currentQuestionIndex' = 0
          /\ sessionResults' = <<>>
          /\ questions' = questions]_vars

\* C4 witness: a session was started while a request that an earlier session
\* issued for its second question is still in flight
C4_Witness ==
  /\ lastEvent.type = "start" /\ lastEvent.ok
  /\ mode = "active" /\ currentQuestionIndex = 0 /\ sessionResults = <<>>
  /\ \E k \in 1..Len(analyzeCalls) :
       ~analyzeCalls[k].inSession /\ analyzeCalls[k].idx > 0

\* C5: in a session with non-empty audio and successful analyses only, the
\* slot of a retried question holds the result of its last attempt, never an
\* earlier one: a completion replaces a stored result only by the result of
\* a later attempt (request ids grow in the order the calls are initiated).
C5_LastAttemptStored ==
  [][(lastEvent'.type = "analyzeSettled" /\ sessionClean')
       => \A i \in 0..MaxQuestions :
            Truthy(ResultAt(sessionResults, i))
              => ResultAt(sessionResults', i).id >= ResultAt(sessionResults, i).id]_vars

\* C6: onTryAgain sets the mode to active and requests playback of the
\* current question again (the start-answer button waits for it), leaving
\* currentQuestionIndex, the questions and sessionResults unchanged.
C6_TryAgainFrame ==
  [][lastEvent'.type = "tryAgain"
       => /\ mode' = "active"
          /\ currentQuestionIndex' = currentQuestionIndex
          /\ questions' = questions
          /\ sessionResults' = sessionResults
          /\ IF Falsy(At(questions, currentQuestionIndex))
             THEN Earlier(speakCalls') = Earlier(speakCalls)
             ELSE /\ Len(speakCalls') = Len(speakCalls) + 1
                  /\ speakCalls'[Len(speakCalls')].pc = "fetch"
                  /\ speakCalls'[Len(speakCalls')].fromShow
                  /\ btnStartAnswerDisabled']_vars

\* C6 witness: try-again was clicked on a question that has a stored result;
\* the result is still stored and the question is being played again
C6_Witness ==
  /\ lastEvent.type = "tryAgain"
  /\ mode = "active"
  /\ Truthy(ResultAt(sessionResults, currentQuestionIndex))
  /\ Len(speakCalls) = 1 /\ speakCalls[1].pc = "fetch"

\* C7: onNextQuestion adds exactly one to currentQuestionIndex, leaves
\* sessionResults unchanged, and sets the mode to complete when the new index
\* is past the last question and to active otherwise.
C7_NextAdvances ==
  [][lastEvent'.type = "next"
       => /\ currentQuestionIndex' = currentQuestionIndex + 1
          /\ sessionResults' = sessionResults
          /\ mode' = IF currentQuestionIndex' > Len(questions) - 1
                     THEN "complete" ELSE "active"]_vars

\* C7 witness: next was clicked on the last of two questions, with a result
\* stored for it
C7_Witness ==
  /\ lastEvent.type = "next"
  /\ mode = "complete"
  /\ Len(questions) = 2 /\ currentQuestionIndex = 2
  /\ Truthy(ResultAt(sessionResults, 1))

\* C8: on reaching complete the summary has one entry per index with a stored
\* result, none for the others, and each entry is labelled with the question
\* at the index where its result is stored.
C8_SummaryAttribution ==
  (lastEvent.type = "next" /\ mode = "complete")
    => /\ Len(sessionSummary) = Cardinality(StoredIndices)
       /\ \A i \in StoredIndices :
            \E k \in 1..Len(sessionSummary) :
              /\ sessionSummary[k].data = ResultAt(sessionResults, i)
              /\ sessionSummary[k].q = SummaryLabel(questions, i)

\* C9: a guided capture that stops with zero captured bytes issues no analyze
\* request, moves the mode to feedback, and Feedback presents an empty result
\* for the current index, also on a retry of a question with a stored result.
C9_EmptyCaptureFeedback ==
  [][(lastEvent'.type = "recorderStopped" /\ audioChunks' = 0)
       => /\ analyzeCalls' = analyzeCalls
          /\ mode' = "feedback"
          /\ guidedFeedback'.shown = "none"]_vars

\* C10: each completion of a guided analyze call stores a result at the
\* current index and moves the mode to feedback; after a failed call the slot
\* at the current index holds an empty result.
C10_CompletionStores ==
  [][lastEvent'.type = "analyzeSettled"
       => /\ mode' = "feedback"
          /\ lastEvent'.ok
               => ResultAt(sessionResults', currentQuestionIndex).id = lastEvent'.id
          /\ ~lastEvent'.ok
               => ~Truthy(ResultAt(sessionResults', currentQuestionIndex))]_vars

PresentedPlaybackPending ==
  \E k \in 1..Len(speakCalls) :
    speakCalls[k].latest /\ speakCalls[k].pc \in {"fetch", "playing", "synth"}

\* C12: from the moment a question is presented in mode active until the
\* playback requested for that presentation has ended or errored, the
\* start-answer button is disabled, so no capture can start meanwhile.
C12_CaptureWaitsForPlayback ==
  PresentedPlaybackPending => btnStartAnswerDisabled

\* C13: after a question is presented in mode active, the start-answer
\* button eventually becomes enabled, whatever the outcome of the playback.
C13_CaptureEventuallyEnabled ==
  (lastEvent.type \in {"start", "tryAgain", "next"} /\ lastEvent.ok
     /\ mode = "active")
    ~> ~btnStartAnswerDisabled

\* C14: when loading the questions fails at the collaborator (network error,
\* error status, response without a question list) the error is surfaced
\* (the catch of loadQuestions ran) and questions and jobDescription keep
\* their values.
C14_FailedLoadKeepsQuestions ==
  [][lastEvent'.type = "loadFailed"
       => /\ ~lastEvent'.ok
          /\ questions' = questions
          /\ jobDescription' = jobDescription]_vars

\* n spaces
Spaces(n) == [k \in 1..n |-> " "]

\* q is the input without its leading and trailing spaces
IsTrimOf(q, input) ==
  /\ q # <<>> => (Head(q) # " " /\ q[Len(q)] # " ")
  /\ \E a, b \in 0..Len(input) : input = Spaces(a) \o q \o Spaces(b)

\* C15: addCustomQuestion with empty or whitespace-only input leaves the
\* questions unchanged; with any other input it appends the trimmed input as
\* one question at the end and keeps every existing question at its position.
C15_AddAppendsTrimmed ==
  [][\A input \in CustomInputs :
       addCustomQuestion(input)
         => IF \A k \in 1..Len(input) : input[k] = " "
            THEN questions' = questions
            ELSE /\ Len(questions') = Len(questions) + 1
                 /\ SubSeq(questions', 1, Len(questions)) = questions
                 /\ IsTrimOf(questions'[Len(questions')], input)]_vars

\* C15 witness: a custom question typed with surrounding spaces was added
\* behind a loaded question
C15_Witness ==
  /\ lastEvent.type = "add" /\ lastEvent.ok
  /\ questions = <<QA, <<"c">>>>

\* C16: from the start of a guided session on, a step leaves the questions
\* at the indices already visited (0..currentQuestionIndex) as they are,
\* and in mode complete it leaves the whole question list as it is
C16_VisitedQuestionsStable ==
  [][mode # "setup" =>
       /\ \A i \in 0..currentQuestionIndex :
            At(questions', i) = At(questions, i)
       /\ mode = "complete" => questions' = questions]_vars

\* the met value of criterion c in a turn: the field itself for
\* trailing_sentences, the met property of the field's object for the others
MetValue(c, v) ==
  IF c = "trailing_sentences" THEN v.kind
  ELSE IF v.kind = "object" THEN v.met ELSE "undefined"

\* C17: in a rendered turn, a criterion that is omitted or whose met value
\* is not a boolean carries neither the met nor the not-met badge
C17_UnknownNeverCoerced ==
  rubric # NotRendered =>
    \A c \in Criteria :
      MetValue(c, turn[c]) \notin {"true", "false"} =>
        rubric[c] \notin {"yes", "no"}

\* C18: within a guided session currentQuestionIndex never decreases: a
\* step other than an accepted start adds one to it when it is a next click
\* and leaves it as it is otherwise (try-again, analyze completions and
\* every other action)
C18_IndexMonotonic ==
  [][~(lastEvent'.type = "start" /\ lastEvent'.ok) =>
       currentQuestionIndex' =
         IF lastEvent'.type = "next" THEN currentQuestionIndex + 1
         ELSE currentQuestionIndex]_vars

\* C18 witness: try-again was clicked on the second question and an analyze
\* request of the first attempt is still to complete
C18_Witness ==
  /\ lastEvent.type = "tryAgain"
  /\ currentQuestionIndex = 1
  /\ mode = "active"
  /\ Len(analyzeCalls) > 0

\* C19: complete is terminal: a step taken in mode complete leaves mode,
\* currentQuestionIndex and sessionResults as they are, unless it is the
\* accepted start of a new session, clicked in the setup view
C19_CompleteTerminal ==
  [][mode = "complete" =>
       \/ /\ mode' = mode
          /\ currentQuestionIndex' = currentQuestionIndex
          /\ sessionResults' = sessionResults
       \/ /\ lastEvent'.type = "start" /\ lastEvent'.ok
          /\ guidedSetupDisplay]_vars

\* C20: a step that changes the mode follows one of the edges
\* setup->active (start), active->analyzing (capture stop),
\* analyzing->feedback (analyze completion, or the stop event of a capture
\* without audio), feedback->active (try-again, or next before the last
\* question), feedback->complete (next on the last question)
C20_ModeEdges ==
  [][mode' # mode =>
       \/ /\ mode = "setup" /\ mode' = "active"
          /\ lastEvent'.type = "start"
       \/ /\ mode = "active" /\ mode' = "analyzing"
          /\ lastEvent'.type = "stopAnswer"
       \/ /\ mode = "analyzing" /\ mode' = "feedback"
          /\ lastEvent'.type \in {"analyzeSettled", "recorderStopped"}
       \/ /\ mode = "feedback" /\ mode' = "active"
          /\ lastEvent'.type \in {"tryAgain", "next"}
       \/ /\ mode = "feedback" /\ mode' = "complete"
          /\ lastEvent'.type = "next"]_vars

\* C21: stopSpeaking, called by a start-answer click, leaves mode,
\* currentQuestionIndex, questions and sessionResults unchanged, and after
\* it no playback request that was in flight at the call is playing audio
\* or speaking, whether its TTS fetch had completed or was still pending
C21_StopReleasesPlayback ==
  [][/\ (lastEvent'.type = "startAnswer" /\ lastEvent'.ok) =>
          /\ mode' = mode
          /\ currentQuestionIndex' = currentQuestionIndex
          /\ questions' = questions
          /\ sessionResults' = sessionResults
     /\ \A k \in 1..Len(speakCalls') :
          speakCalls'[k].stopped => speakCalls'[k].pc \notin {"playing", "synth"}]_vars

\* C22: the completion of an analyze call that was initiated in a previous
\* session (in flight when a new session was started) changes neither
\* sessionResults nor the mode of the new session
C22_PreviousSessionDiscarded ==
  [][\A k \in 1..Len(analyzeCalls) :
       (/\ lastEvent'.type = "analyzeSettled"
        /\ lastEvent'.id = analyzeCalls[k].id
        /\ ~analyzeCalls[k].inSession)
         => (sessionResults' = sessionResults /\ mode' = mode)]_vars

\* C23: a guided analyze request is built with includeRewrites = true and
\* the text of the question at currentQuestionIndex, and the result of a
\* request is stored at the index that was read when the request was built
C23_RequestBoundToQuestion ==
  [][/\ (lastEvent'.type = "recorderStopped" /\ lastEvent'.ok) =>
          LET r == analyzeCalls'[Len(analyzeCalls')]
          IN /\ r.includeRewrites
             /\ r.q = At(questions, currentQuestionIndex)
             /\ r.idx = currentQuestionIndex
     /\ \A k \in 1..Len(analyzeCalls) :
          (/\ lastEvent'.type = "analyzeSettled" /\ lastEvent'.ok
           /\ lastEvent'.id = analyzeCalls[k].id)
            => /\ ResultAt(sessionResults', analyzeCalls[k].idx).id = analyzeCalls[k].id
               /\ \A i \in 0..MaxQuestions :
                    i # analyzeCalls[k].idx
                      => ResultAt(sessionResults', i) = ResultAt(sessionResults, i)]_vars

\* C24: at most one capture is active at any time: no recorder is recording
\* without mediaRecorder referring to it, and no recorder is recording into
\* audioChunks while the stop event of another recorder is still to read it
C24_OneCapture ==
  /\ orphanRecorders = 0
  /\ ~(mediaRecorder = "recording" /\ stopEvents > 0)

\* C25: in mode active, analyzing or feedback currentQuestionIndex is the
\* index of a question of the list, and in mode complete it equals the
\* number of questions
C25_IndexInRange ==
  /\ mode \in {"active", "analyzing", "feedback"}
       => (0 <= currentQuestionIndex /\ currentQuestionIndex < Len(questions))
  /\ mode = "complete" => currentQuestionIndex = Len(questions)

\* C26: whenever an audio element started by speakQuestion is playing,
\* currentTtsAudio refers to it
C26_PlayingIsCurrent ==
  \A k \in 1..Len(speakCalls) :
    speakCalls[k].pc = "playing" => speakCalls[k].current

\* C27: in free-form mode the results shown are those of the recording
\* stopped last, and the completion of the analysis of a recording after
\* which another recording was started leaves the results area as it is
C27_LatestResultsShown ==
  [][/\ resultsEl'.shown = "results" => resultsEl'.id = lastStopped'
     /\ (lastEvent'.type = "freeSettled" /\ lastEvent'.stale)
          => resultsEl' = resultsEl]_vars

====
